---- MODULE Spec2Model ----
(***************************************************************************)
(* Feature-flag store of the Twitch-Bots repository:                       *)
(*   feature_flags/shared_storage.py       SharedFlagStorage, the watcher  *)
(*   feature_flags/feature_flags_manager.py FeatureFlagManager             *)
(* Application threads call the manager's methods; every acquisition of    *)
(* the store's RLock is one step of the calling thread.  The watchdog      *)
(* observer thread takes file events and runs _reload_config.              *)
(***************************************************************************)
EXTENDS Integers, Sequences, FiniteSets, TLC

\* ---- bounds of the model ----
MaxVal == 2
MaxCalls == 3
Iterations == 1

\* ---- values of the program ----
None == -1
Values == 1 .. MaxVal
Defaults == {1}
GetDefaults == {None, MaxVal}
READ_ONLY == "read_only"
READ_WRITE == "read_write"
OWNER_ONLY == "owner_only"
PermissionLevel == {READ_ONLY, READ_WRITE, OWNER_ONLY}
debounce_seconds == 1

Modules == {"A", "B"}
FlagNames == {"f"}
Managers == {"m1", "m2"}
Threads == {"t1", "t2"}
Callbacks == {"cb1"}
Descriptions == {"d"}
Absent == "<absent>"
NoMgr == "-"
MgrIndex(m) == IF m = "m1" THEN 1 ELSE 2

VARIABLES
  file,            \* the JSON config file
  stored,          \* _shared_storages[path]: 0 for no entry, else the number
                   \* of the SharedFlagStorage instance, in order of creation
  cache,           \* SharedFlagStorage._cache
  descriptions,    \* SharedFlagStorage._descriptions
  ownership,       \* SharedFlagStorage._ownership_registry
  since_reload,    \* time.time() - _last_reload, capped at debounce_seconds
  observers,       \* SharedFlagStorage._observers
  manager_count,   \* SharedFlagStorage._manager_count
  lock,            \* holder of SharedFlagStorage._lock across steps
  observer_alive,  \* the watchdog Observer thread is started and not stopped
  events,          \* file events queued for the watchdog thread
  wpc, wct,        \* the watchdog thread: position, age of its current_time
  mgr,             \* the FeatureFlagManager objects
  th,              \* the application threads: position, locals, outcome
  calls,           \* observer invocations since the current call began
  ncalls,          \* calls so far that got past their checks
  written,         \* per flag, the value of the latest set_flag that returned
  temp,            \* the temporary file next to the config file
  iter,            \* per thread, the worker's completed get-then-set cycles
  manager_instances, \* _manager_instances: per key, the manager get_manager made
  getting,         \* per thread, the key its get_manager call found missing
  running_modules, \* ModuleManager._running_modules
  status,          \* per module, TwitchModule.status
  tasks            \* per coroutine, its stack of start_module/stop_module frames

vars == <<file, stored, cache, descriptions, ownership, since_reload,
          observers, manager_count, lock, observer_alive, events, wpc, wct,
          mgr, th, calls, ncalls, written, temp, iter,
          manager_instances, getting, running_modules, status, tasks>>

\* the state outside the flag store: the manager registry of get_manager and
\* the module manager
appVars == <<manager_instances, getting, running_modules, status, tasks>>
flagVars == <<file, stored, cache, descriptions, ownership, since_reload,
              observers, manager_count, lock, observer_alive, events, wpc, wct,
              mgr, th, calls, ncalls, written, temp, iter>>
flagVars_but_th_calls ==
  <<file, stored, cache, descriptions, ownership, since_reload, observers,
    manager_count, lock, observer_alive, events, wpc, wct, mgr, ncalls,
    written, temp, iter>>

storeVars == <<cache, descriptions, ownership, since_reload, observers>>

\* ---- Python dicts ----
EmptyDict == [k \in {} |-> None]
DictGet(d, k) == IF k \in DOMAIN d THEN d[k] ELSE None
DictSet(d, k, v) == [x \in (DOMAIN d) \cup {k} |-> IF x = k THEN v ELSE d[x]]

\* ---- the config file ----
\* kind "doc": a JSON object whose "flags" member is an object of entries
AbsentFile == [kind |-> "absent", flags |-> EmptyDict]
DocFile(flags) == [kind |-> "doc", flags |-> flags]
\* text that json.load rejects: invalid JSON, undecodable bytes
InvalidFile == [kind |-> "invalid", flags |-> EmptyDict]
\* the first part of a document, as a writer that has not finished leaves it
PartialFile == [kind |-> "partial", flags |-> EmptyDict]
\* a JSON object without a "flags" member
NoFlagsFile == [kind |-> "noflags", flags |-> EmptyDict]
\* a JSON object whose "flags" member is not an object, as in {"flags": 5}
BadFlagsFile == [kind |-> "badflags", flags |-> EmptyDict]

FlagEntry(flag_name, value, descs, ownership_info) ==
  [ value |-> value,
    description |->
      IF flag_name \in DOMAIN descs /\ descs[flag_name] # ""
        THEN descs[flag_name] ELSE Absent,
    owner_module |->
      IF flag_name \in DOMAIN ownership_info
        THEN ownership_info[flag_name].owner_module ELSE Absent,
    access_permissions |->
      IF flag_name \in DOMAIN ownership_info
        THEN ownership_info[flag_name].access_permissions ELSE Absent ]

\* the "_metadata" block of the document is never read back and is left out
write_config(flags, descs, ownership_info) ==
  DocFile([n \in DOMAIN flags |-> FlagEntry(n, flags[n], descs, ownership_info)])

\* ---- _reload_config, the part under the lock ----
LoadCache(fl) == [n \in DOMAIN fl.flags |-> fl.flags[n].value]
LoadDescriptions(fl) ==
  [n \in {x \in DOMAIN fl.flags : fl.flags[x].description # Absent}
     |-> fl.flags[n].description]
LoadOwnership(fl) ==
  [n \in {x \in DOMAIN fl.flags : fl.flags[x].owner_module # Absent
                                  /\ fl.flags[x].access_permissions # Absent}
     |-> [owner_module |-> fl.flags[n].owner_module,
          access_permissions |-> fl.flags[n].access_permissions]]

RECURSIVE CallsFor(_, _, _, _)
CallsFor(cbs, flag_name, old_value, new_value) ==
  IF cbs = <<>> THEN <<>>
  ELSE <<[cb |-> Head(cbs), flag |-> flag_name, old |-> old_value, new |-> new_value]>>
       \o CallsFor(Tail(cbs), flag_name, old_value, new_value)

\* _notify_observer: the callbacks of one flag, in registration order
notify_observer(obs, flag_name, old_value, new_value) ==
  IF flag_name \in DOMAIN obs
    THEN CallsFor(obs[flag_name], flag_name, old_value, new_value)
    ELSE <<>>

\* ---- an observer that sets the flag it observes ----
\* WorkerProcess.on_message_received: unless the new value is its own
\* acknowledgement, it calls self.manager.set_flag(flag, ack)
on_message_received == "on_message_received"
Ack == 1
AckManager == "m2"

\* a callback that raises an exception when it is called
raising_callback == "raising_callback"

\* a callback loop without try/except: the exception leaves the loop
callback_raise_escapes == FALSE

\* lines 193-196 and 274-277: the exception of a callback is caught and logged
callback_raise_caught == TRUE

\* The loop of _notify_observer / _notify_observers over the callbacks cbs of
\* one flag, with what the callbacks do before they return. cur is the cached
\* value when the next callback is called, all is the flag's whole observer
\* list, may_set tells whether on_message_received's set_flag passes its
\* permission checks (its PermissionError is caught by lines 275-277).
\* Result: the invocations in order, the cached value at the end, the
\* number of times the nested set_flag has written the file, and whether an
\* exception has left the loop.
RECURSIVE Deliver(_, _, _, _, _, _, _)
Deliver(cbs, all, flag_name, old_value, new_value, cur, may_set) ==
  IF cbs = <<>> THEN [calls |-> <<>>, value |-> cur, writes |-> 0, raised |-> FALSE]
  ELSE IF Head(cbs) = raising_callback /\ ~callback_raise_caught
    THEN [calls |-> <<[cb |-> Head(cbs), flag |-> flag_name,
                       old |-> old_value, new |-> new_value]>>,
          value |-> cur, writes |-> 0, raised |-> TRUE]
  ELSE LET sets == /\ Head(cbs) = on_message_received
                   /\ new_value # None
                   /\ new_value # old_value
                   /\ new_value # Ack
                   /\ may_set
           \* the nested set_flag_value: lines 262-268
           nested == IF sets /\ cur # Ack
                       THEN CallsFor(all, flag_name, cur, Ack)
                       ELSE <<>>
           rest == Deliver(Tail(cbs), all, flag_name, old_value, new_value,
                           IF sets THEN Ack ELSE cur, may_set)
       IN [calls |-> <<[cb |-> Head(cbs), flag |-> flag_name,
                        old |-> old_value, new |-> new_value]>>
                     \o nested \o rest.calls,
           value |-> rest.value,
           writes |-> rest.writes + (IF sets THEN 1 ELSE 0),
           raised |-> rest.raised]

\* the loop of _notify_observers over the flags: new_config is the cache
\* itself, so a flag set by a callback is seen by the rest of the loop
RECURSIVE NotifyFlags(_, _, _, _, _)
NotifyFlags(names, obs, old_config, config, may_set) ==
  IF names = {} THEN [calls |-> <<>>, config |-> config, writes |-> 0]
  ELSE LET n == CHOOSE x \in names : TRUE
           o == DictGet(old_config, n)
           v == DictGet(config, n)
           d == IF o # v
                  THEN Deliver(obs[n], obs[n], n, o, v, v, may_set[n])
                  ELSE [calls |-> <<>>, value |-> v, writes |-> 0, raised |-> FALSE]
           after == IF d.writes > 0 THEN DictSet(config, n, d.value) ELSE config
           \* an exception that leaves the loop ends up in the except clause
           \* of _reload_config, lines 182-183
           rest == IF d.raised
                     THEN [calls |-> <<>>, config |-> after, writes |-> 0]
                     ELSE NotifyFlags(names \ {n}, obs, old_config, after, may_set)
       IN [calls |-> d.calls \o rest.calls, config |-> rest.config,
           writes |-> d.writes + rest.writes]

\* _notify_observers: every observed flag whose value differs
notify_observers(obs, old_config, new_config, may_set) ==
  NotifyFlags(DOMAIN obs, obs, old_config, new_config, may_set)


\* ---- thread and manager records ----
IdleTh ==
  [pc |-> "idle", op |-> "-", m |-> NoMgr, f |-> "-", v |-> None, perm |-> "-",
   desc |-> "", snapC |-> EmptyDict, snapD |-> EmptyDict, snapO |-> EmptyDict,
   old |-> None, out |-> "-", val |-> None]
OffTh == [IdleTh EXCEPT !.pc = "off"]
\* storage: the number of the instance in self._storage, 0 before line 40;
\* seen: what `written` was when the manager was constructed;
\* declared_here: the flags for which declare_flag has returned on this manager;
\* observing: per flag, the callbacks this manager has passed to add_observer
\* since its last remove_observer of the flag
Unborn ==
  [state |-> "unborn", module_name |-> "-", declared_flags |-> EmptyDict,
   my_observers |-> EmptyDict, attached |-> FALSE, seen |-> EmptyDict,
   declared_here |-> {}, storage |-> 0, observing |-> EmptyDict]

\* a call that has returned: its arguments and its outcome
Result(op, m, f, v, out, val) ==
  [IdleTh EXCEPT !.pc = "done", !.op = op, !.m = m, !.f = f, !.v = v,
                 !.out = out, !.val = val]
CallTh(pc, op, m, f, v, perm, desc) ==
  [IdleTh EXCEPT !.pc = pc, !.op = op, !.m = m, !.f = f, !.v = v,
                 !.perm = perm, !.desc = desc]

LockFree(t) == lock \in {"-", t}
Queue(n) == IF observer_alive THEN n + 1 ELSE n
Live(m) == mgr[m].state = "live"
Declared(m, f) == f \in DOMAIN mgr[m].declared_flags

\* a thread starts a call once its previous call has returned
BeginCall(t) ==
  /\ th[t].pc \in {"idle", "done"}
  /\ calls' = <<>>

\* the call gets past its checks: it counts towards MaxCalls
Proceed ==
  /\ ncalls < MaxCalls
  /\ ncalls' = ncalls + 1

Return(t, r) == th' = [th EXCEPT ![t] = r]

\* ---- the module manager's modules ----
INACTIVE == "inactive"
STARTING == "starting"
ACTIVE == "active"
STOPPING == "stopping"
ERROR == "error"
ModuleStatus == {INACTIVE, STARTING, ACTIVE, STOPPING, ERROR}

\* the registered modules, all enabled; "chat" lists "core" in
\* config.dependencies, "points" lists "chat"
ModuleNames == {"core", "chat", "points"}
dependencies ==
  [n \in ModuleNames |-> IF n = "chat" THEN <<"core">>
                         ELSE IF n = "points" THEN <<"chat">> ELSE <<>>]
\* the coroutines that call start_module and stop_module on the event loop
Coroutines == {"c1", "c2"}

\* get_manager has made no manager, no module has been started
InitApp ==
  /\ manager_instances = EmptyDict
  /\ getting = [t \in Threads |-> "-"]
  /\ running_modules = {}
  /\ status = [n \in ModuleNames |-> INACTIVE]
  /\ tasks = [c \in Coroutines |-> <<>>]

\* No manager has been constructed yet
InitEmpty(active) ==
  /\ file = AbsentFile
  /\ stored = 0
  /\ cache = EmptyDict
  /\ descriptions = EmptyDict
  /\ ownership = EmptyDict
  /\ since_reload = debounce_seconds
  /\ observers = EmptyDict
  /\ manager_count = 0
  /\ lock = "-"
  /\ observer_alive = FALSE
  /\ events = 0
  /\ wpc = "idle"
  /\ wct = 0
  /\ mgr = [m \in Managers |-> Unborn]
  /\ th = [t \in Threads |-> IF t \in active THEN IdleTh ELSE OffTh]
  /\ calls = <<>>
  /\ ncalls = 0
  /\ written = EmptyDict
  /\ temp = AbsentFile
  /\ iter = [t \in Threads |-> 0]
  /\ InitApp

\* The first manager, of module "A", has been constructed on a path with no
\* file: the store is loaded, the watcher runs, the empty config is written
\* and its file event is queued.
InitWith(active) ==
  /\ file = write_config(EmptyDict, EmptyDict, EmptyDict)
  /\ stored = 1
  /\ cache = EmptyDict
  /\ descriptions = EmptyDict
  /\ ownership = EmptyDict
  /\ since_reload = 0
  /\ observers = EmptyDict
  /\ manager_count = 1
  /\ lock = "-"
  /\ observer_alive = TRUE
  /\ events = 1
  /\ wpc = "idle"
  /\ wct = 0
  /\ mgr = [m \in Managers |->
             IF m = "m1" THEN [Unborn EXCEPT !.state = "live", !.module_name = "A",
                                             !.attached = TRUE, !.storage = 1]
                         ELSE Unborn]
  /\ th = [t \in Threads |-> IF t \in active THEN IdleTh ELSE OffTh]
  /\ calls = <<>>
  /\ ncalls = 0
  /\ written = EmptyDict
  /\ temp = AbsentFile
  /\ iter = [t \in Threads |-> 0]
  /\ InitApp

\* ---- _reload_config lines 140-183, under the lock ----
\* line 147: json.load raises, before anything is assigned
load_raises(fl) == fl.kind \in {"invalid", "partial"}
\* line 156: config_data["flags"].items() raises, after lines 153-155
items_raises(fl) == fl.kind = "badflags"
\* the except clause of lines 182-183 is entered
reload_raised(fl) == load_raises(fl) \/ items_raises(fl)

reload_result(fl, c, d, o) ==
  IF fl.kind = "absent" \/ load_raises(fl)
    THEN [cache |-> c, descriptions |-> d, ownership |-> o]
  ELSE IF fl.kind = "noflags" \/ items_raises(fl)
    THEN [cache |-> EmptyDict, descriptions |-> EmptyDict, ownership |-> EmptyDict]
  ELSE [cache |-> LoadCache(fl), descriptions |-> LoadDescriptions(fl),
        ownership |-> LoadOwnership(fl)]

\* set_flag lines 231-258 when it is called from an observer during a
\* delivery, the registry then being own
nested_set_denied(own, m, f) ==
  \/ ~Declared(m, f)
  \/ mgr[m].declared_flags[f].permission = READ_ONLY
  \/ /\ f \in DOMAIN own
     /\ own[f].owner_module # mgr[m].module_name
     /\ own[f].access_permissions \in {OWNER_ONLY, READ_ONLY}

\* k writes of the config file: k file events
QueueN(n, k) == IF observer_alive THEN n + k ELSE n

reload_locked(current_time) ==
  LET r == reload_result(file, cache, descriptions, ownership)
      d == IF file.kind = "absent" \/ reload_raised(file)
             THEN [calls |-> <<>>, config |-> r.cache, writes |-> 0]
             ELSE notify_observers(observers, cache, r.cache,
                               [n \in FlagNames |->
                                  ~nested_set_denied(r.ownership, AckManager, n)])
  IN
  /\ since_reload' = current_time
  /\ cache' = d.config
  /\ descriptions' = r.descriptions
  /\ ownership' = r.ownership
  /\ calls' = calls \o d.calls
  /\ file' = IF d.writes > 0
               THEN write_config(d.config, r.descriptions, r.ownership)
               ELSE file
  /\ events' = QueueN(events, d.writes)

\* Two managers, of modules "A" and "B", have been constructed on a path with
\* no file; the file event of the first one's empty config is queued.
InitTwo(active) ==
  /\ file = write_config(EmptyDict, EmptyDict, EmptyDict)
  /\ stored = 1
  /\ cache = EmptyDict
  /\ descriptions = EmptyDict
  /\ ownership = EmptyDict
  /\ since_reload = 0
  /\ observers = EmptyDict
  /\ manager_count = 2
  /\ lock = "-"
  /\ observer_alive = TRUE
  /\ events = 1
  /\ wpc = "idle"
  /\ wct = 0
  /\ mgr = [m \in Managers |->
             [Unborn EXCEPT !.state = "live", !.attached = TRUE, !.storage = 1,
                            !.module_name = IF m = "m1" THEN "A" ELSE "B"]]
  /\ th = [t \in Threads |-> IF t \in active THEN IdleTh ELSE OffTh]
  /\ calls = <<>>
  /\ ncalls = 0
  /\ written = EmptyDict
  /\ temp = AbsentFile
  /\ iter = [t \in Threads |-> 0]
  /\ InitApp

\* Module "A" has declared flag "f" as READ_WRITE with default 1 on m1, module
\* "B" has called use_flag on m2, and the watchdog thread has handled the file
\* events of these calls some time ago.
InitShared(active) ==
  LET own == [n \in FlagNames |-> [owner_module |-> "A",
                                   access_permissions |-> READ_WRITE]]
      val == [n \in FlagNames |-> 1]
      dsc == [n \in FlagNames |-> "d"] IN
  /\ file = write_config(val, dsc, own)
  /\ stored = 1
  /\ cache = val
  /\ descriptions = dsc
  /\ ownership = own
  /\ since_reload = debounce_seconds
  /\ observers = EmptyDict
  /\ manager_count = 2
  /\ lock = "-"
  /\ observer_alive = TRUE
  /\ events = 0
  /\ wpc = "idle"
  /\ wct = 0
  /\ mgr = [m \in Managers |->
             IF m = "m1"
               THEN [Unborn EXCEPT !.state = "live", !.attached = TRUE, !.storage = 1,
                                   !.module_name = "A",
                                   !.declared_flags =
                                      [n \in FlagNames |->
                                         [permission |-> OWNER_ONLY, default_value |-> 1]],
                                   !.declared_here = FlagNames]
               ELSE [Unborn EXCEPT !.state = "live", !.attached = TRUE, !.storage = 1,
                                   !.module_name = "B",
                                   !.declared_flags =
                                      [n \in FlagNames |->
                                         [permission |-> READ_WRITE,
                                          default_value |-> None]]]]
  /\ th = [t \in Threads |-> IF t \in active THEN IdleTh ELSE OffTh]
  /\ calls = <<>>
  /\ ncalls = 0
  /\ written = EmptyDict
  /\ temp = AbsentFile
  /\ iter = [t \in Threads |-> 0]
  /\ InitApp

\* ---- FeatureFlagManager.__init__ ----
\* get_shared_storage, and SharedFlagStorage.__init__ for a new path
\* get_shared_storage that creates an instance on every call
storage_never_known == FALSE

\* line 345: the path has an entry in _shared_storages
storage_known == stored # 0

get_shared_storage(t, m, mod) ==
  /\ BeginCall(t)
  /\ mgr[m].state = "unborn"
  /\ \A k \in Managers : MgrIndex(k) < MgrIndex(m) => mgr[k].state # "unborn"
  /\ IF storage_known
       THEN UNCHANGED <<stored, storeVars, manager_count, observer_alive, events>>
       ELSE LET r == reload_result(file, EmptyDict, EmptyDict, EmptyDict) IN
            /\ stored' = stored + 1
            /\ cache' = r.cache
            /\ descriptions' = r.descriptions
            /\ ownership' = r.ownership
            /\ since_reload' = 0
            /\ observers' = EmptyDict
            /\ manager_count' = 0
            /\ observer_alive' = TRUE
            /\ events' = 0
  /\ mgr' = [mgr EXCEPT ![m] = [Unborn EXCEPT !.state = "init", !.module_name = mod,
                                                !.attached = TRUE, !.seen = written,
                                                !.storage = stored']]
  /\ th' = [th EXCEPT ![t] = CallTh("add_manager", "init", m, "-", None, "-", "")]
  /\ UNCHANGED <<appVars, temp, iter, file, lock, wpc, wct, ncalls, written>>

add_manager(t) ==
  /\ th[t].pc = "add_manager"
  /\ LockFree(t)
  /\ manager_count' = manager_count + 1
  /\ th' = [th EXCEPT ![t].pc = "ensure_config_exists"]
  /\ UNCHANGED <<appVars, temp, iter, file, stored, storeVars, lock, observer_alive, events,
                 wpc, wct, mgr, calls, ncalls, written>>

\* _ensure_config_exists, lines 140-144
ensure_config_exists(t) ==
  /\ th[t].pc = "ensure_config_exists"
  /\ LockFree(t)
  /\ IF file.kind = "absent"
       THEN /\ file' = write_config(EmptyDict, EmptyDict, EmptyDict)
            /\ events' = Queue(events)
       ELSE UNCHANGED <<file, events>>
  /\ mgr' = [mgr EXCEPT ![th[t].m].state = "live"]
  /\ Return(t, Result("init", th[t].m, "-", None, "ok", None))
  /\ UNCHANGED <<appVars, temp, iter, stored, storeVars, manager_count, lock, observer_alive,
                 wpc, wct, calls, ncalls, written>>


\* ---- declare_flag ----
\* the conflict test taken for a test of the advertised level
declare_conflict_only_owner_only(m, f) ==
  /\ f \in DOMAIN ownership
  /\ ownership[f].owner_module # mgr[m].module_name
  /\ ownership[f].access_permissions = OWNER_ONLY

\* lines 70-71: the flag is already owned by another module
declare_conflict(m, f) ==
  /\ f \in DOMAIN ownership
  /\ ownership[f].owner_module # mgr[m].module_name

\* lines 67-75: the ownership check
declare_flag(t, m, f, access_permissions, default_value, description) ==
  /\ BeginCall(t)
  /\ Live(m)
  /\ LockFree(t)
  /\ IF declare_conflict(m, f)
       THEN /\ Return(t, Result("declare", m, f, None, "PermissionError", None))
            /\ UNCHANGED ncalls
       ELSE /\ th' = [th EXCEPT ![t] = CallTh("declare_set_ownership", "declare", m, f,
                                              default_value, access_permissions, description)]
            /\ Proceed
  /\ UNCHANGED <<appVars, temp, iter, file, stored, storeVars, manager_count, lock,
                 observer_alive, events, wpc, wct, mgr, written>>

\* ---- ModuleManager.register_module, for a module with one flag ----
\* line 91 and _setup_module_feature_flags: declare_flag is called inside
\* try/except Exception (lines 432-437), which logs the error and returns, so
\* register_module goes on to line 96 and returns normally
register_module(t, m, f, access_permissions, default_value, description) ==
  /\ BeginCall(t)
  /\ Live(m)
  /\ LockFree(t)
  /\ IF declare_conflict(m, f)
       THEN /\ Return(t, [Result("register", m, f, None, "ok", None)
                            EXCEPT !.desc = "logged: PermissionError"])
            /\ UNCHANGED ncalls
       ELSE /\ th' = [th EXCEPT ![t] = CallTh("declare_set_ownership", "register", m, f,
                                              default_value, access_permissions, description)]
            /\ Proceed
  /\ UNCHANGED <<appVars, temp, iter, file, stored, storeVars, manager_count, lock,
                 observer_alive, events, wpc, wct, mgr, written>>

\* lines 77-86: claim ownership, record the local declaration
declare_set_ownership(t) ==
  /\ th[t].pc = "declare_set_ownership"
  /\ LockFree(t)
  /\ ownership' = DictSet(ownership, th[t].f,
                     [owner_module |-> mgr[th[t].m].module_name,
                      access_permissions |-> th[t].perm])
  /\ mgr' = [mgr EXCEPT ![th[t].m].declared_flags =
               DictSet(@, th[t].f, [permission |-> OWNER_ONLY,
                                    default_value |-> th[t].v])]
  /\ th' = [th EXCEPT ![t].pc = "declare_get_flag_value"]
  /\ UNCHANGED <<appVars, temp, iter, file, stored, cache, descriptions, since_reload, observers,
                 manager_count, lock, observer_alive, events, wpc, wct, calls,
                 ncalls, written>>

\* line 89: the store has no value for the flag
needs_default(f) == DictGet(cache, f) = None

declare_get_flag_value(t) ==
  /\ th[t].pc = "declare_get_flag_value"
  /\ LockFree(t)
  /\ th' = [th EXCEPT ![t].pc = IF needs_default(th[t].f)
                                  THEN "declare_set_flag_value"
                                  ELSE "get_cache"]
  /\ UNCHANGED <<appVars, temp, iter, file, stored, storeVars, manager_count, lock,
                 observer_alive, events, wpc, wct, mgr, calls, ncalls, written>>

\* SharedFlagStorage.set_flag_value, lines 260-268
\* lines 266-268: the observers of the flag are called if the value differs
set_flag_value_notify(flag_name, value) ==
  LET old_value == DictGet(cache, flag_name) IN
  IF old_value # value /\ flag_name \in DOMAIN observers
    THEN Deliver(observers[flag_name], observers[flag_name], flag_name,
                 old_value, value, value,
                 ~nested_set_denied(ownership, AckManager, flag_name))
    ELSE [calls |-> <<>>, value |-> value, writes |-> 0, raised |-> FALSE]

store_set_flag_value(flag_name, value) ==
  LET d == set_flag_value_notify(flag_name, value) IN
  /\ cache' = DictSet(cache, flag_name, d.value)
  /\ calls' = calls \o d.calls
  /\ file' = IF d.writes > 0
               THEN write_config(DictSet(cache, flag_name, d.value),
                                 descriptions, ownership)
               ELSE file
  /\ events' = QueueN(events, d.writes)

\* line 90
declare_set_flag_value(t) ==
  /\ th[t].pc = "declare_set_flag_value"
  /\ LockFree(t)
  /\ store_set_flag_value(th[t].f, th[t].v)
  /\ IF set_flag_value_notify(th[t].f, th[t].v).raised
       THEN Return(t, [Result(th[t].op, th[t].m, th[t].f, th[t].v, "Exception", None)
                         EXCEPT !.desc = "callback"])
       ELSE th' = [th EXCEPT ![t].pc = "declare_set_flag_description"]
  /\ UNCHANGED <<appVars, temp, iter, stored, descriptions, ownership, since_reload, observers,
                 manager_count, lock, observer_alive, wpc, wct, mgr,
                 ncalls, written>>

\* line 91
declare_set_flag_description(t) ==
  /\ th[t].pc = "declare_set_flag_description"
  /\ LockFree(t)
  /\ descriptions' = DictSet(descriptions, th[t].f, th[t].desc)
  /\ th' = [th EXCEPT ![t].pc = "get_cache"]
  /\ UNCHANGED <<appVars, temp, iter, file, stored, cache, ownership, since_reload, observers,
                 manager_count, lock, observer_alive, events, wpc, wct, mgr,
                 calls, ncalls, written>>

\* ---- _persist_config, lines 146-151 ----
get_cache(t) ==
  /\ th[t].pc = "get_cache"
  /\ LockFree(t)
  /\ th' = [th EXCEPT ![t].pc = "get_descriptions", ![t].snapC = cache]
  /\ UNCHANGED <<appVars, temp, iter, file, stored, storeVars, manager_count, lock,
                 observer_alive, events, wpc, wct, mgr, calls, ncalls, written>>

get_descriptions(t) ==
  /\ th[t].pc = "get_descriptions"
  /\ LockFree(t)
  /\ th' = [th EXCEPT ![t].pc = "get_ownership_registry", ![t].snapD = descriptions]
  /\ UNCHANGED <<appVars, temp, iter, file, stored, storeVars, manager_count, lock,
                 observer_alive, events, wpc, wct, mgr, calls, ncalls, written>>

get_ownership_registry(t) ==
  /\ th[t].pc = "get_ownership_registry"
  /\ LockFree(t)
  /\ th' = [th EXCEPT ![t].pc = "write_config", ![t].snapO = ownership]
  /\ UNCHANGED <<appVars, temp, iter, file, stored, storeVars, manager_count, lock,
                 observer_alive, events, wpc, wct, mgr, calls, ncalls, written>>

\* line 151, write_config and _write_config_atomic: the call returns
persist_write_config(t) ==
  /\ th[t].pc = "write_config"
  /\ LockFree(t)
  /\ file' = write_config(th[t].snapC, th[t].snapD, th[t].snapO)
  /\ events' = Queue(events)
  /\ Return(t, [Result(th[t].op, th[t].m, th[t].f, th[t].v, "ok", None)
                  EXCEPT !.old = th[t].old])
  /\ written' = IF th[t].op = "set" THEN DictSet(written, th[t].f, th[t].v)
                                    ELSE written
  /\ mgr' = IF th[t].op = "declare"
              THEN [mgr EXCEPT ![th[t].m].declared_here = @ \cup {th[t].f}]
              ELSE mgr
  /\ UNCHANGED <<appVars, temp, iter, stored, storeVars, manager_count, lock, observer_alive,
                 wpc, wct, calls, ncalls>>

\* ---- write_config and _write_config_atomic, statement by statement ----
\* a write that dumps into the config file itself
dump_path_in_place == "target"

\* line 235: the file that is opened for writing
dump_path == "temp"

\* an except clause that leaves the temp file behind
cleanup_temp_skipped == temp

\* lines 241-242: temp_path.unlink()
cleanup_temp == AbsentFile

\* line 243: the RuntimeError reaches the caller of set_flag or declare_flag
write_raise(t, cause) ==
  /\ Return(t, [Result(th[t].op, th[t].m, th[t].f, th[t].v, "RuntimeError", None)
                  EXCEPT !.old = th[t].old, !.desc = cause])
  /\ lock' = "-"

\* lines 200-235: the lock is taken, the directory made, the file opened
write_open(t, ok) ==
  /\ th[t].pc = "write_config"
  /\ lock = "-"
  /\ IF ok
       THEN /\ lock' = t
            /\ th' = [th EXCEPT ![t].pc = "write_dump"]
            /\ IF dump_path = "temp"
                 THEN temp' = PartialFile /\ file' = file
                 ELSE file' = PartialFile /\ temp' = temp
       ELSE /\ write_raise(t, "open")
            /\ UNCHANGED <<file, temp>>
  /\ UNCHANGED <<appVars, iter, stored, storeVars, manager_count, observer_alive,
                 events, wpc, wct, mgr, calls, ncalls, written>>

\* line 236: json.dump and the close of the file
write_dump(t, ok) ==
  /\ th[t].pc = "write_dump"
  /\ lock = t
  /\ IF ok
       THEN /\ th' = [th EXCEPT ![t].pc = "write_replace"]
            /\ lock' = lock
            /\ IF dump_path = "temp"
                 THEN /\ temp' = write_config(th[t].snapC, th[t].snapD, th[t].snapO)
                      /\ file' = file
                 ELSE /\ file' = write_config(th[t].snapC, th[t].snapD, th[t].snapO)
                      /\ temp' = temp
       ELSE /\ write_raise(t, "dump")
            /\ temp' = cleanup_temp
            /\ file' = file
  /\ UNCHANGED <<appVars, iter, stored, storeVars, manager_count, observer_alive,
                 events, wpc, wct, mgr, calls, ncalls, written>>

\* line 239: temp_path.replace(config_path); the call returns
write_replace(t, ok) ==
  /\ th[t].pc = "write_replace"
  /\ lock = t
  /\ IF ok
       THEN /\ IF dump_path = "temp"
                 THEN file' = temp /\ temp' = AbsentFile
                 ELSE UNCHANGED <<file, temp>>
            /\ events' = Queue(events)
            /\ lock' = "-"
            /\ Return(t, [Result(th[t].op, th[t].m, th[t].f, th[t].v, "ok", None)
                            EXCEPT !.old = th[t].old])
            /\ written' = IF th[t].op = "set" THEN DictSet(written, th[t].f, th[t].v)
                                              ELSE written
            /\ mgr' = IF th[t].op = "declare"
                        THEN [mgr EXCEPT ![th[t].m].declared_here = @ \cup {th[t].f}]
                        ELSE mgr
       ELSE /\ write_raise(t, "replace")
            /\ temp' = cleanup_temp
            /\ UNCHANGED <<file, events, written, mgr>>
  /\ UNCHANGED <<appVars, iter, stored, storeVars, manager_count, observer_alive,
                 wpc, wct, calls, ncalls>>

\* ---- use_flag ----
\* use_flag without the OWNER_ONLY refusal of lines 125-129
use_grant_without_refusal(m, f) ==
  IF f \notin DOMAIN ownership THEN "PermissionError"
  ELSE IF ownership[f].owner_module = mgr[m].module_name THEN OWNER_ONLY
  ELSE ownership[f].access_permissions

\* lines 114-131: the level granted to this manager, or the error
use_grant(m, f) ==
  IF f \notin DOMAIN ownership THEN "PermissionError"
  ELSE IF ownership[f].owner_module = mgr[m].module_name THEN OWNER_ONLY
  ELSE IF ownership[f].access_permissions = OWNER_ONLY THEN "PermissionError"
  ELSE ownership[f].access_permissions

use_flag(t, m, f) ==
  /\ BeginCall(t)
  /\ Live(m)
  /\ LockFree(t)
  /\ IF use_grant(m, f) = "PermissionError"
       THEN /\ Return(t, Result("use", m, f, None, "PermissionError", None))
            /\ UNCHANGED ncalls
       ELSE /\ th' = [th EXCEPT ![t] = CallTh("use_get_descriptions", "use", m, f,
                                              None, use_grant(m, f), "")]
            /\ Proceed
  /\ UNCHANGED <<appVars, temp, iter, file, stored, storeVars, manager_count, lock,
                 observer_alive, events, wpc, wct, mgr, written>>

\* lines 133-138
use_get_descriptions(t) ==
  /\ th[t].pc = "use_get_descriptions"
  /\ LockFree(t)
  /\ mgr' = [mgr EXCEPT ![th[t].m].declared_flags =
               DictSet(@, th[t].f,
                 [permission |-> th[t].perm, default_value |-> None])]
  /\ Return(t, Result("use", th[t].m, th[t].f, None, "ok", None))
  /\ UNCHANGED <<appVars, temp, iter, file, stored, storeVars, manager_count, lock,
                 observer_alive, events, wpc, wct, calls, ncalls, written>>

\* ---- get_flag, lines 167-182 ----
get_flag_result(m, f, default) ==
  IF DictGet(cache, f) = None
    THEN (IF default = None THEN mgr[m].declared_flags[f].default_value ELSE default)
    ELSE DictGet(cache, f)

get_flag(t, m, f, default) ==
  /\ BeginCall(t)
  /\ Live(m)
  /\ LockFree(t)
  /\ IF ~Declared(m, f)
       THEN Return(t, Result("get", m, f, default, "PermissionError", None))
       ELSE Return(t, Result("get", m, f, default, "ok", get_flag_result(m, f, default)))
  /\ UNCHANGED <<appVars, temp, iter, file, stored, storeVars, manager_count, lock,
                 observer_alive, events, wpc, wct, mgr, ncalls, written>>

\* ---- set_flag ----
\* set_flag with the two READ_ONLY tests left out
set_denied_without_read_only(m, f) ==
  \/ ~Declared(m, f)
  \/ /\ f \in DOMAIN ownership
     /\ ownership[f].owner_module # mgr[m].module_name
     /\ ownership[f].access_permissions = OWNER_ONLY

\* set_flag without the local-declaration test of lines 233-237
set_denied_without_declaration(m, f) ==
  \/ /\ Declared(m, f)
     /\ mgr[m].declared_flags[f].permission = READ_ONLY
  \/ /\ f \in DOMAIN ownership
     /\ ownership[f].owner_module # mgr[m].module_name
     /\ ownership[f].access_permissions \in {OWNER_ONLY, READ_ONLY}

\* lines 231-258: the permission checks
set_denied(m, f) ==
  \/ ~Declared(m, f)
  \/ mgr[m].declared_flags[f].permission = READ_ONLY
  \/ /\ f \in DOMAIN ownership
     /\ ownership[f].owner_module # mgr[m].module_name
     /\ ownership[f].access_permissions \in {OWNER_ONLY, READ_ONLY}

set_flag(t, m, f, value) ==
  /\ BeginCall(t)
  /\ Live(m)
  /\ LockFree(t)
  /\ IF set_denied(m, f)
       THEN /\ Return(t, Result("set", m, f, value, "PermissionError", None))
            /\ UNCHANGED <<ncalls, written>>
       ELSE /\ th' = [th EXCEPT ![t] = CallTh("set_flag_value", "set", m, f, value, "-", "")]
            /\ written' = DictSet(written, f, None)
            /\ Proceed
  /\ UNCHANGED <<appVars, temp, iter, file, stored, storeVars, manager_count, lock,
                 observer_alive, events, wpc, wct, mgr>>

\* line 261
set_flag_value(t) ==
  /\ th[t].pc = "set_flag_value"
  /\ LockFree(t)
  /\ store_set_flag_value(th[t].f, th[t].v)
  /\ IF set_flag_value_notify(th[t].f, th[t].v).raised
       THEN Return(t, [Result("set", th[t].m, th[t].f, th[t].v, "Exception", None)
                         EXCEPT !.desc = "callback", !.old = DictGet(cache, th[t].f)])
       ELSE th' = [th EXCEPT ![t].pc = "get_cache",
                             ![t].old = DictGet(cache, th[t].f)]
  /\ UNCHANGED <<appVars, temp, iter, stored, descriptions, ownership, since_reload, observers,
                 manager_count, lock, observer_alive, wpc, wct, mgr,
                 ncalls, written>>

\* ---- add_observer, lines 273-281, and SharedFlagStorage.add_observer ----
add_observer(t, m, f, callback) ==
  /\ BeginCall(t)
  /\ Live(m)
  /\ LockFree(t)
  /\ IF ~Declared(m, f)
       THEN /\ Return(t, Result("add_observer", m, f, None, "PermissionError", None))
            /\ UNCHANGED <<mgr, observers, ncalls>>
       ELSE /\ Proceed
            /\ mgr' = [mgr EXCEPT ![m].my_observers = DictSet(@, f, callback),
                                  ![m].observing =
                                     DictSet(@, f, (IF f \in DOMAIN @ THEN @[f] ELSE {})
                                                     \cup {callback})]
            /\ observers' = DictSet(observers, f,
                  Append(IF f \in DOMAIN observers THEN observers[f] ELSE <<>>, callback))
            /\ Return(t, Result("add_observer", m, f, None, "ok", None))
  /\ UNCHANGED <<appVars, temp, iter, file, stored, cache, descriptions, ownership, since_reload,
                 manager_count, lock, observer_alive, events, wpc, wct, written>>

\* ---- remove_observer, lines 283-289, and SharedFlagStorage.remove_observer ----
\* list.remove(x): the list without the first x
RECURSIVE ListRemove(_, _)
ListRemove(l, x) ==
  IF l = <<>> THEN <<>>
  ELSE IF Head(l) = x THEN Tail(l)
  ELSE <<Head(l)>> \o ListRemove(Tail(l), x)

DictDel(d, k) == [x \in (DOMAIN d) \ {k} |-> d[x]]

\* SharedFlagStorage.remove_observer with a callback, lines 308-317
store_remove_observer(flag_name, callback) ==
  observers' = IF flag_name \in DOMAIN observers
                 THEN LET l == ListRemove(observers[flag_name], callback) IN
                      IF l = <<>> THEN DictDel(observers, flag_name)
                                  ELSE DictSet(observers, flag_name, l)
                 ELSE observers

remove_observer(t, m, f) ==
  /\ BeginCall(t)
  /\ Live(m)
  /\ LockFree(t)
  /\ IF f \in DOMAIN mgr[m].my_observers
       THEN /\ Proceed
            /\ store_remove_observer(f, mgr[m].my_observers[f])
            /\ mgr' = [mgr EXCEPT ![m].my_observers = DictDel(@, f),
                                  ![m].observing = DictDel(@, f)]
       ELSE UNCHANGED <<observers, mgr, ncalls>>
  /\ Return(t, Result("remove_observer", m, f, None, "ok", None))
  /\ UNCHANGED <<appVars, temp, iter, file, stored, cache, descriptions, ownership, since_reload,
                 manager_count, lock, observer_alive, events, wpc, wct, written>>

\* ---- shutdown, remove_manager lines 107-112, _shutdown lines 326-330 ----
shutdown(t, m) ==
  /\ BeginCall(t)
  /\ Proceed
  /\ Live(m)
  /\ LockFree(t)
  /\ manager_count' = manager_count - 1
  /\ mgr' = [mgr EXCEPT ![m].attached = FALSE]
  /\ IF manager_count - 1 <= 0
       THEN /\ observer_alive' = FALSE
            /\ events' = 0
            /\ IF wpc = "idle"
                 THEN /\ Return(t, Result("shutdown", m, "-", None, "ok", None))
                      /\ lock' = lock
                 ELSE \* observer.join() under the lock, while the watchdog
                      \* thread waits for that lock in _reload_config
                      /\ th' = [th EXCEPT ![t] = CallTh("join", "shutdown", m, "-",
                                                        None, "-", "")]
                      /\ lock' = t
       ELSE /\ Return(t, Result("shutdown", m, "-", None, "ok", None))
            /\ UNCHANGED <<observer_alive, events, lock>>
  /\ UNCHANGED <<appVars, temp, iter, file, stored, storeVars, wpc, wct, written>>

\* ---- the watchdog thread: SharedFileHandler.on_moved, _reload_config ----
\* SharedFileHandler.on_moved, then lines 129-136: one queued event is handled
\* up to the debounce test, which is made without the lock
watcher_event ==
  /\ observer_alive
  /\ events > 0
  /\ wpc = "idle"
  /\ events' = events - 1
  /\ IF since_reload < debounce_seconds
       THEN UNCHANGED <<wpc, wct>>
       ELSE wpc' = "reload" /\ wct' = 0
  /\ UNCHANGED <<appVars, temp, iter, file, stored, storeVars, manager_count, lock,
                 observer_alive, mgr, th, calls, ncalls, written>>

\* lines 140-183
watcher_reload ==
  /\ wpc = "reload"
  /\ lock = "-"
  /\ reload_locked(wct)
  /\ wpc' = "idle"
  /\ wct' = 0
  /\ UNCHANGED <<appVars, temp, iter, stored, observers, manager_count, lock,
                 observer_alive, mgr, th, ncalls, written>>

\* ---- test_concurrent_access: worker threads on one counter flag ----
CounterStart == 0
CounterFlag == "f"
CounterManager == "m1"

\* manager = get_manager(...); manager.declare_flag(COUNTER_FLAG, READ_WRITE,
\* 0, ...) has returned; the file events of its two writes are still queued
InitCounter ==
  LET own == [n \in {CounterFlag} |-> [owner_module |-> "A",
                                       access_permissions |-> READ_WRITE]]
      val == [n \in {CounterFlag} |-> CounterStart]
      dsc == [n \in {CounterFlag} |-> "d"] IN
  /\ file = write_config(val, dsc, own)
  /\ stored = 1
  /\ cache = val
  /\ descriptions = dsc
  /\ ownership = own
  /\ since_reload = 0
  /\ observers = EmptyDict
  /\ manager_count = 1
  /\ lock = "-"
  /\ observer_alive = TRUE
  /\ events = 2
  /\ wpc = "idle"
  /\ wct = 0
  /\ mgr = [m \in Managers |->
             IF m = CounterManager
               THEN [Unborn EXCEPT !.state = "live", !.module_name = "A",
                                   !.attached = TRUE, !.storage = 1,
                                   !.declared_flags =
                                      [n \in {CounterFlag} |->
                                         [permission |-> OWNER_ONLY,
                                          default_value |-> CounterStart]],
                                   !.declared_here = {CounterFlag}]
               ELSE Unborn]
  /\ th = [t \in Threads |-> IdleTh]
  /\ calls = <<>>
  /\ ncalls = 0
  /\ written = EmptyDict
  /\ temp = AbsentFile
  /\ iter = [t \in Threads |-> 0]
  /\ InitApp

\* current = manager.get_int(COUNTER_FLAG, 0)
worker_get(t) ==
  /\ th[t].pc = "idle"
  /\ iter[t] < Iterations
  /\ get_flag(t, CounterManager, CounterFlag, 0)

\* manager.set_flag(COUNTER_FLAG, current + 1)
worker_set(t) ==
  /\ th[t].pc = "done"
  /\ th[t].op = "get"
  /\ th[t].out = "ok"
  /\ set_flag(t, CounterManager, CounterFlag, th[t].val + 1)

\* the call raised: errors.append, the thread ends; otherwise, after set_flag,
\* the next round of the for loop
worker_loop(t) ==
  /\ th[t].pc = "done"
  /\ th[t].out # "ok" \/ th[t].op = "set"
  /\ IF th[t].out # "ok"
       THEN /\ th' = [th EXCEPT ![t].pc = "failed"]
            /\ iter' = iter
       ELSE /\ th' = [th EXCEPT ![t] = IdleTh]
            /\ iter' = [iter EXCEPT ![t] = @ + 1]
  /\ UNCHANGED <<appVars, temp, file, stored, storeVars, manager_count, lock,
                 observer_alive, events, wpc, wct, mgr, calls, ncalls, written>>

\* ---- a writer outside the program replaces the content of the file ----
ExternalFiles ==
  {InvalidFile, NoFlagsFile, BadFlagsFile,
   write_config([n \in FlagNames |-> MaxVal], [n \in FlagNames |-> "d"],
                [n \in FlagNames |-> [owner_module |-> "A",
                                      access_permissions |-> READ_WRITE]])}

external_write(fl) ==
  /\ stored # 0
  /\ Proceed
  /\ file' = fl
  /\ events' = Queue(events)
  /\ UNCHANGED <<appVars, temp, iter, stored, storeVars, manager_count, lock,
                 observer_alive, wpc, wct, mgr, th, calls, written>>

\* the file is removed; SharedFileHandler has no on_deleted, so the watchdog
\* thread does nothing with the event of the removal
external_delete ==
  /\ stored # 0
  /\ file.kind # "absent"
  /\ Proceed
  /\ file' = AbsentFile
  /\ UNCHANGED <<appVars, temp, iter, stored, storeVars, manager_count, lock,
                 observer_alive, events, wpc, wct, mgr, th, calls, written>>

\* ---- FeatureFlagManager.reload, SharedFlagStorage.reload ----
\* _reload_config lines 129-136 in the caller's thread: current_time is taken
\* and tested without the lock; th[t].val is the age of that current_time
reload(t, m) ==
  /\ BeginCall(t)
  /\ Live(m)
  /\ IF since_reload < debounce_seconds
       THEN Return(t, Result("reload", m, "-", None, "debounced", None))
       ELSE th' = [th EXCEPT ![t] =
                     [CallTh("reload_config", "reload", m, "-", None, "-", "")
                        EXCEPT !.val = 0]]
  /\ UNCHANGED <<appVars, temp, iter, file, stored, storeVars, manager_count, lock,
                 observer_alive, events, wpc, wct, mgr, ncalls, written>>

\* lines 140-183 in the caller's thread
reload_config(t) ==
  /\ th[t].pc = "reload_config"
  /\ LockFree(t)
  /\ reload_locked(th[t].val)
  /\ Return(t, Result("reload", th[t].m, "-", None, "ok", None))
  /\ UNCHANGED <<appVars, temp, iter, stored, observers, manager_count, lock,
                 observer_alive, wpc, wct, mgr, ncalls, written>>

\* time passes: every age grows by one tick, up to debounce_seconds
Older(age) == IF age < debounce_seconds THEN age + 1 ELSE age

Tick ==
  /\ \/ since_reload < debounce_seconds
     \/ wpc = "reload" /\ wct < debounce_seconds
     \/ \E t \in Threads : th[t].pc = "reload_config" /\ th[t].val < debounce_seconds
  /\ since_reload' = Older(since_reload)
  /\ wct' = IF wpc = "reload" THEN Older(wct) ELSE wct
  /\ th' = [t \in Threads |->
              IF th[t].pc = "reload_config"
                THEN [th[t] EXCEPT !.val = Older(@)]
                ELSE th[t]]
  /\ UNCHANGED <<appVars, temp, iter, file, stored, cache, descriptions, ownership, observers,
                 manager_count, lock, observer_alive, events, wpc, mgr,
                 calls, ncalls, written>>

Next ==
  \/ \E t \in Threads, m \in Managers, mod \in Modules : get_shared_storage(t, m, mod)
  \/ \E t \in Threads : add_manager(t)
  \/ \E t \in Threads : ensure_config_exists(t)
  \/ \E t \in Threads, m \in Managers, f \in FlagNames, p \in PermissionLevel,
        v \in Defaults, d \in Descriptions : declare_flag(t, m, f, p, v, d)
  \/ \E t \in Threads : declare_set_ownership(t)
  \/ \E t \in Threads : declare_get_flag_value(t)
  \/ \E t \in Threads : declare_set_flag_value(t)
  \/ \E t \in Threads : declare_set_flag_description(t)
  \/ \E t \in Threads : get_cache(t)
  \/ \E t \in Threads : get_descriptions(t)
  \/ \E t \in Threads : get_ownership_registry(t)
  \/ \E t \in Threads : persist_write_config(t)
  \/ \E t \in Threads, m \in Managers, f \in FlagNames : use_flag(t, m, f)
  \/ \E t \in Threads : use_get_descriptions(t)
  \/ \E t \in Threads, m \in Managers, f \in FlagNames, v \in GetDefaults : get_flag(t, m, f, v)
  \/ \E t \in Threads, m \in Managers, f \in FlagNames, v \in Values : set_flag(t, m, f, v)
  \/ \E t \in Threads : set_flag_value(t)
  \/ \E t \in Threads, m \in Managers, f \in FlagNames, c \in Callbacks :
        add_observer(t, m, f, c)
  \/ \E t \in Threads, m \in Managers : shutdown(t, m)
  \/ watcher_event
  \/ watcher_reload
  \/ Tick

\* one application thread and the watchdog thread
Init == InitWith({"t1"})
Spec == Init /\ [][Next]_vars

\* the first manager alone, declaring with any default and setting
NextDeclare ==
  \/ \E t \in Threads, m \in Managers, f \in FlagNames, p \in PermissionLevel,
        v \in Values, d \in Descriptions : declare_flag(t, m, f, p, v, d)
  \/ \E t \in Threads : declare_set_ownership(t)
  \/ \E t \in Threads : declare_get_flag_value(t)
  \/ \E t \in Threads : declare_set_flag_value(t)
  \/ \E t \in Threads : declare_set_flag_description(t)
  \/ \E t \in Threads : get_cache(t)
  \/ \E t \in Threads : get_descriptions(t)
  \/ \E t \in Threads : get_ownership_registry(t)
  \/ \E t \in Threads : persist_write_config(t)
  \/ \E t \in Threads, m \in Managers, f \in FlagNames, v \in GetDefaults : get_flag(t, m, f, v)
  \/ \E t \in Threads, m \in Managers, f \in FlagNames, v \in Values : set_flag(t, m, f, v)
  \/ \E t \in Threads : set_flag_value(t)
  \/ watcher_event
  \/ watcher_reload
  \/ Tick

SpecDeclare == Init /\ [][NextDeclare]_vars

\* the first manager and a writer outside the program
NextCorrupt ==
  \/ \E t \in Threads, m \in Managers, f \in FlagNames, p \in PermissionLevel,
        v \in Defaults, d \in Descriptions : declare_flag(t, m, f, p, v, d)
  \/ \E t \in Threads : declare_set_ownership(t)
  \/ \E t \in Threads : declare_get_flag_value(t)
  \/ \E t \in Threads : declare_set_flag_value(t)
  \/ \E t \in Threads : declare_set_flag_description(t)
  \/ \E t \in Threads : get_cache(t)
  \/ \E t \in Threads : get_descriptions(t)
  \/ \E t \in Threads : get_ownership_registry(t)
  \/ \E t \in Threads : persist_write_config(t)
  \/ \E t \in Threads, m \in Managers, f \in FlagNames, v \in GetDefaults : get_flag(t, m, f, v)
  \/ \E t \in Threads, m \in Managers, f \in FlagNames, v \in Values : set_flag(t, m, f, v)
  \/ \E t \in Threads : set_flag_value(t)
  \/ \E fl \in ExternalFiles : external_write(fl)
  \/ watcher_event
  \/ watcher_reload
  \/ Tick

SpecCorrupt == Init /\ [][NextCorrupt]_vars

\* one thread declaring flags, directly or through register_module, on the
\* managers of two modules
NextRegister ==
  \/ \E t \in Threads, m \in Managers, f \in FlagNames, p \in PermissionLevel,
        v \in Defaults, d \in Descriptions : declare_flag(t, m, f, p, v, d)
  \/ \E t \in Threads, m \in Managers, f \in FlagNames, p \in PermissionLevel,
        v \in Defaults, d \in Descriptions : register_module(t, m, f, p, v, d)
  \/ \E t \in Threads : declare_set_ownership(t)
  \/ \E t \in Threads : declare_get_flag_value(t)
  \/ \E t \in Threads : declare_set_flag_value(t)
  \/ \E t \in Threads : declare_set_flag_description(t)
  \/ \E t \in Threads : get_cache(t)
  \/ \E t \in Threads : get_descriptions(t)
  \/ \E t \in Threads : get_ownership_registry(t)
  \/ \E t \in Threads : persist_write_config(t)
  \/ watcher_event
  \/ watcher_reload
  \/ Tick

SpecRegister == InitTwo({"t1"}) /\ [][NextRegister]_vars

\* each module's code runs on its own thread, with its own manager
OwnManager(t) == IF t = "t1" THEN "m1" ELSE "m2"

\* two threads, each declaring flags on the manager of its module
NextRace ==
  \/ \E t \in Threads, f \in FlagNames, p \in PermissionLevel,
        v \in Defaults, d \in Descriptions : declare_flag(t, OwnManager(t), f, p, v, d)
  \/ \E t \in Threads : declare_set_ownership(t)
  \/ \E t \in Threads : declare_get_flag_value(t)
  \/ \E t \in Threads : declare_set_flag_value(t)
  \/ \E t \in Threads : declare_set_flag_description(t)
  \/ \E t \in Threads : get_cache(t)
  \/ \E t \in Threads : get_descriptions(t)
  \/ \E t \in Threads : get_ownership_registry(t)
  \/ \E t \in Threads : persist_write_config(t)
  \/ watcher_event
  \/ watcher_reload
  \/ Tick

SpecRace == InitTwo(Threads) /\ [][NextRace]_vars

\* the owner re-declares a shared flag on its thread while the other module
\* uses, reads and sets it on its own thread
NextShared ==
  \/ \E t \in Threads, f \in FlagNames, p \in PermissionLevel,
        v \in Defaults, d \in Descriptions : declare_flag(t, OwnManager(t), f, p, v, d)
  \/ \E t \in Threads : declare_set_ownership(t)
  \/ \E t \in Threads : declare_get_flag_value(t)
  \/ \E t \in Threads : get_cache(t)
  \/ \E t \in Threads : get_descriptions(t)
  \/ \E t \in Threads : get_ownership_registry(t)
  \/ \E t \in Threads : persist_write_config(t)
  \/ \E t \in Threads, f \in FlagNames : use_flag(t, OwnManager(t), f)
  \/ \E t \in Threads : use_get_descriptions(t)
  \/ \E t \in Threads, f \in FlagNames, v \in GetDefaults :
        get_flag(t, OwnManager(t), f, v)
  \/ \E t \in Threads, f \in FlagNames, v \in Values : set_flag(t, OwnManager(t), f, v)
  \/ \E t \in Threads : set_flag_value(t)
  \/ watcher_event
  \/ watcher_reload
  \/ Tick

SpecShared == InitShared(Threads) /\ [][NextShared]_vars

\* the first manager declaring and setting, each write made step by step and
\* liable to fail at each step
NextWrite ==
  \/ \E t \in Threads, m \in Managers, f \in FlagNames, p \in PermissionLevel,
        v \in Defaults, d \in Descriptions : declare_flag(t, m, f, p, v, d)
  \/ \E t \in Threads : declare_set_ownership(t)
  \/ \E t \in Threads : declare_get_flag_value(t)
  \/ \E t \in Threads : declare_set_flag_value(t)
  \/ \E t \in Threads : declare_set_flag_description(t)
  \/ \E t \in Threads : get_cache(t)
  \/ \E t \in Threads : get_descriptions(t)
  \/ \E t \in Threads : get_ownership_registry(t)
  \/ \E t \in Threads, ok \in BOOLEAN : write_open(t, ok)
  \/ \E t \in Threads, ok \in BOOLEAN : write_dump(t, ok)
  \/ \E t \in Threads, ok \in BOOLEAN : write_replace(t, ok)
  \/ \E t \in Threads, m \in Managers, f \in FlagNames, v \in Values : set_flag(t, m, f, v)
  \/ \E t \in Threads : set_flag_value(t)
  \/ watcher_event
  \/ watcher_reload
  \/ Tick

SpecWrite == Init /\ [][NextWrite]_vars

\* two threads construct and shut down managers on one path, from nothing
NextAttach ==
  \/ \E t \in Threads, m \in Managers, mod \in Modules : get_shared_storage(t, m, mod)
  \/ \E t \in Threads : add_manager(t)
  \/ \E t \in Threads : ensure_config_exists(t)
  \/ \E t \in Threads, m \in Managers : shutdown(t, m)
  \/ watcher_event
  \/ watcher_reload
  \/ Tick

SpecAttach == InitEmpty(Threads) /\ [][NextAttach]_vars

\* the same, with every thread that can take a step taking one in the end
SpecAttachFair == SpecAttach /\ WF_vars(NextAttach)

\* the worker threads of test_concurrent_access and the watchdog thread
NextCounter ==
  \/ \E t \in Threads : worker_get(t)
  \/ \E t \in Threads : worker_set(t)
  \/ \E t \in Threads : worker_loop(t)
  \/ \E t \in Threads : set_flag_value(t)
  \/ \E t \in Threads : get_cache(t)
  \/ \E t \in Threads : get_descriptions(t)
  \/ \E t \in Threads : get_ownership_registry(t)
  \/ \E t \in Threads : persist_write_config(t)
  \/ watcher_event
  \/ watcher_reload
  \/ Tick

SpecCounter == InitCounter /\ [][NextCounter]_vars

\* a declared flag with observers, a writer outside the program, manual
\* reloads and the watchdog thread
NextExternal ==
  \/ \E t \in Threads, m \in Managers, f \in FlagNames, c \in Callbacks :
        add_observer(t, m, f, c)
  \/ \E fl \in ExternalFiles : external_write(fl)
  \/ external_delete
  \/ \E t \in Threads, m \in Managers : reload(t, m)
  \/ \E t \in Threads : reload_config(t)
  \/ watcher_event
  \/ watcher_reload
  \/ Tick

SpecExternal == InitShared({"t1"}) /\ [][NextExternal]_vars

\* the same, where the watchdog thread keeps running and time keeps passing
SpecExternalFair ==
  /\ SpecExternal
  /\ WF_vars(watcher_event)
  /\ WF_vars(watcher_reload)
  /\ WF_vars(Tick)

\* the owner's manager m1 and the worker's manager m2 with their observers:
\* a callback that only records, the worker's on_message_received, and a
\* callback that raises
ObserveCallbacks == {"cb1", on_message_received, raising_callback}

NextObserve ==
  \/ \E t \in Threads, m \in Managers, f \in FlagNames, c \in ObserveCallbacks :
        /\ c = on_message_received => m = AckManager
        /\ add_observer(t, m, f, c)
  \/ \E t \in Threads, m \in Managers, f \in FlagNames, v \in Values : set_flag(t, m, f, v)
  \/ \E t \in Threads : set_flag_value(t)
  \/ \E t \in Threads : get_cache(t)
  \/ \E t \in Threads : get_descriptions(t)
  \/ \E t \in Threads : get_ownership_registry(t)
  \/ \E t \in Threads : persist_write_config(t)
  \/ \E t \in Threads, m \in Managers, f \in FlagNames : remove_observer(t, m, f)
  \/ \E t \in Threads, m \in Managers : shutdown(t, m)
  \/ watcher_event
  \/ watcher_reload
  \/ Tick

SpecObserve == InitShared({"t1"}) /\ [][NextObserve]_vars

\* a store that holds a flag: further managers are constructed on its path,
\* and the config file can be removed from outside
NextRebuild ==
  \/ \E t \in Threads, m \in Managers, mod \in Modules : get_shared_storage(t, m, mod)
  \/ \E t \in Threads : add_manager(t)
  \/ \E t \in Threads : ensure_config_exists(t)
  \/ external_delete
  \/ watcher_event
  \/ watcher_reload
  \/ Tick

SpecRebuild == InitCounter /\ [][NextRebuild]_vars

\* ---- get_manager ----
\* the key of get_manager is "path:module"; there is one path, so the module
\* name stands for the key

\* lines 343-345: the test of the key. With the key present the call goes on
\* to line 348, with the key missing to the constructor of line 346.
get_manager(t, mod) ==
  /\ th[t].pc \in {"idle", "done"}
  /\ getting[t] = "-"
  /\ calls' = <<>>
  /\ getting' = [getting EXCEPT ![t] = mod]
  /\ IF mod \in DOMAIN manager_instances
       THEN th' = [th EXCEPT ![t] =
                     CallTh("get_manager_return", "get_manager", NoMgr, "-", None, "-", mod)]
       ELSE th' = [th EXCEPT ![t] = IdleTh]
  /\ UNCHANGED <<flagVars_but_th_calls, manager_instances, running_modules, status, tasks>>

\* line 346, right-hand side: FeatureFlagManager(config_path, module_name)
construct_manager(t, m) ==
  /\ getting[t] # "-"
  /\ th[t].pc = "idle"
  /\ get_shared_storage(t, m, getting[t])

\* line 346, the assignment: the constructor has returned, the new manager is
\* stored under the key, replacing what is there
get_manager_store(t) ==
  /\ getting[t] # "-"
  /\ th[t].pc = "done"
  /\ th[t].op = "init"
  /\ manager_instances' = DictSet(manager_instances, getting[t], th[t].m)
  /\ th' = [th EXCEPT ![t] =
              CallTh("get_manager_return", "get_manager", NoMgr, "-", None, "-", getting[t])]
  /\ UNCHANGED <<flagVars_but_th_calls, calls, getting, running_modules, status, tasks>>

\* line 348: return _manager_instances[key]; desc of the result is the key
get_manager_return(t) ==
  /\ th[t].pc = "get_manager_return"
  /\ th' = [th EXCEPT ![t] =
              [Result("get_manager", manager_instances[getting[t]], "-", None, "ok", None)
                 EXCEPT !.desc = getting[t]]]
  /\ getting' = [getting EXCEPT ![t] = "-"]
  /\ UNCHANGED <<flagVars_but_th_calls, calls, manager_instances, running_modules, status, tasks>>

NextGet ==
  \/ \E t \in Threads, mod \in Modules : get_manager(t, mod)
  \/ \E t \in Threads, m \in Managers : construct_manager(t, m)
  \/ \E t \in Threads : add_manager(t)
  \/ \E t \in Threads : ensure_config_exists(t)
  \/ \E t \in Threads : get_manager_store(t)
  \/ \E t \in Threads : get_manager_return(t)
  \/ watcher_event
  \/ watcher_reload
  \/ Tick

SpecGet == InitEmpty(Threads) /\ [][NextGet]_vars

\* ---- the module manager: start_module and stop_module ----
\* The coroutines run on one event loop: a step runs from one suspension to
\* the next. A call suspends where it awaits the module's on_start (with the
\* database setup before it, lines 176-183) or on_stop (with the database
\* cleanup after it, lines 254-258); awaiting start_module of a dependency
\* runs that call in the same step up to its own suspension. The default
\* on_error (module_definition.py:129-131) does not suspend; no callbacks are
\* registered.
Frame(op, name, pc, deps) == [op |-> op, name |-> name, pc |-> pc, deps |-> deps]

is_module_enabled(name) == name \in ModuleNames

get_dependents(module_name) ==
  {name \in ModuleNames :
     \E i \in 1..Len(dependencies[name]) : dependencies[name][i] = module_name}

RECURSIVE start_entry(_, _, _)
RECURSIVE start_deps(_, _, _, _)
\* start_module from its first line to its first suspension or its return:
\* the status map, the frames left on the stack, and the value returned
start_entry(run, st, name) ==
  IF ~is_module_enabled(name) THEN [status |-> st, frames |-> <<>>, ret |-> "False"]
  ELSE IF name \in run THEN [status |-> st, frames |-> <<>>, ret |-> "True"]
  ELSE start_deps(run, st, name, dependencies[name])

\* lines 165-183: the loop over the dependencies still to test, then STARTING
\* and the await of on_start
start_deps(run, st, name, deps) ==
  IF deps = <<>>
    THEN [status |-> [st EXCEPT ![name] = STARTING],
          frames |-> <<Frame("start", name, "on_start", <<>>)>>,
          ret |-> "suspended"]
  ELSE IF Head(deps) \in run THEN start_deps(run, st, name, Tail(deps))
  ELSE LET r == start_entry(run, st, Head(deps)) IN
       IF r.ret = "suspended"
         THEN [status |-> r.status,
               frames |-> <<Frame("start", name, "start_module", Tail(deps))>> \o r.frames,
               ret |-> "suspended"]
       ELSE IF r.ret = "False" THEN [status |-> r.status, frames |-> <<>>, ret |-> "False"]
       ELSE start_deps(run, r.status, name, Tail(deps))

\* the innermost call has returned `ret` to the frame on top of `stack`,
\* which awaits it at line 168
RECURSIVE start_resume(_, _, _, _)
start_resume(run, st, stack, ret) ==
  IF stack = <<>> THEN [status |-> st, frames |-> <<>>]
  ELSE LET parent == stack[Len(stack)]
           rest == SubSeq(stack, 1, Len(stack) - 1)
       IN IF ret = "False" THEN start_resume(run, st, rest, "False")
          ELSE LET r == start_deps(run, st, parent.name, parent.deps) IN
               IF r.ret = "suspended"
                 THEN [status |-> r.status, frames |-> rest \o r.frames]
                 ELSE start_resume(run, r.status, rest, r.ret)

Top(c) == tasks[c][Len(tasks[c])]
Below(c) == SubSeq(tasks[c], 1, Len(tasks[c]) - 1)

\* start_module(module_name), force = False, lines 150-183
start_module(c, module_name) ==
  /\ tasks[c] = <<>>
  /\ LET r == start_entry(running_modules, status, module_name) IN
       /\ status' = r.status
       /\ tasks' = [tasks EXCEPT ![c] = r.frames]
  /\ UNCHANGED <<flagVars, manager_instances, getting, running_modules>>

\* on_start has returned: lines 186-202, then the callers' lines 168-183
on_start(c) ==
  /\ tasks[c] # <<>>
  /\ Top(c).pc = "on_start"
  /\ LET name == Top(c).name
         run == running_modules \cup {name}
         r == start_resume(run, [status EXCEPT ![name] = ACTIVE], Below(c), "True")
     IN /\ running_modules' = run
        /\ status' = r.status
        /\ tasks' = [tasks EXCEPT ![c] = r.frames]
  /\ UNCHANGED <<flagVars, manager_instances, getting>>

\* on_start, or the database setup, has raised: lines 204-219, then the
\* callers' lines 168-170
on_start_raises(c) ==
  /\ tasks[c] # <<>>
  /\ Top(c).pc = "on_start"
  /\ LET r == start_resume(running_modules, [status EXCEPT ![Top(c).name] = ERROR],
                           Below(c), "False")
     IN /\ status' = r.status
        /\ tasks' = [tasks EXCEPT ![c] = r.frames]
  /\ UNCHANGED <<flagVars, manager_instances, getting, running_modules>>

\* stop_module(module_name), force = False, lines 232-254
stop_module(c, module_name) ==
  /\ tasks[c] = <<>>
  /\ IF module_name \notin running_modules
       THEN UNCHANGED <<status, tasks>>
     ELSE IF get_dependents(module_name) \cap running_modules # {}
       THEN UNCHANGED <<status, tasks>>
     ELSE /\ status' = [status EXCEPT ![module_name] = STOPPING]
          /\ tasks' = [tasks EXCEPT ![c] = <<Frame("stop", module_name, "on_stop", <<>>)>>]
  /\ UNCHANGED <<flagVars, manager_instances, getting, running_modules>>

\* on_stop and the cleanup have returned: lines 260-280
on_stop(c) ==
  /\ tasks[c] # <<>>
  /\ Top(c).pc = "on_stop"
  /\ status' = [status EXCEPT ![Top(c).name] = INACTIVE]
  /\ running_modules' = running_modules \ {Top(c).name}
  /\ tasks' = [tasks EXCEPT ![c] = <<>>]
  /\ UNCHANGED <<flagVars, manager_instances, getting>>

\* on_stop, or the cleanup, has raised: lines 282-286
on_stop_raises(c) ==
  /\ tasks[c] # <<>>
  /\ Top(c).pc = "on_stop"
  /\ status' = [status EXCEPT ![Top(c).name] = ERROR]
  /\ tasks' = [tasks EXCEPT ![c] = <<>>]
  /\ UNCHANGED <<flagVars, manager_instances, getting, running_modules>>

NextModules ==
  \/ \E c \in Coroutines, n \in ModuleNames : start_module(c, n)
  \/ \E c \in Coroutines : on_start(c)
  \/ \E c \in Coroutines : on_start_raises(c)
  \/ \E c \in Coroutines, n \in ModuleNames : stop_module(c, n)
  \/ \E c \in Coroutines : on_stop(c)
  \/ \E c \in Coroutines : on_stop_raises(c)

SpecModules == InitEmpty({}) /\ [][NextModules]_vars

\* ======================= properties =======================
App == "t1"

\* the registry names another module as owner of f, with the given level
OwnedByOther(m, f, level) ==
  /\ f \in DOMAIN ownership
  /\ ownership[f].owner_module # mgr[m].module_name
  /\ ownership[f].access_permissions = level

\* thread t makes the first step of a call of the given method
Begins(t, op) == th[t].pc \in {"idle", "done"} /\ th'[t].op = op

\* C1: for a flag another module owns with READ_ONLY, a manager that has
\* used the flag gets the stored value from get_flag, and each of its
\* set_flag calls raises PermissionError and leaves the stored value (and the
\* file) as it was.
C1_ReadOnlyForOthers ==
  [][\A t \in Threads :
       /\ Begins(t, "get") =>
            \A m \in Managers, f \in FlagNames, d \in GetDefaults :
              (/\ Declared(m, f)
               /\ OwnedByOther(m, f, READ_ONLY)
               /\ get_flag(t, m, f, d)) =>
                /\ th'[t].out = "ok"
                /\ DictGet(cache, f) # None => th'[t].val = DictGet(cache, f)
       /\ Begins(t, "set") =>
            \A m \in Managers, f \in FlagNames, v \in Values :
              (/\ Declared(m, f)
               /\ OwnedByOther(m, f, READ_ONLY)
               /\ set_flag(t, m, f, v)) =>
                /\ th'[t].pc = "done"
                /\ th'[t].out = "PermissionError"
                /\ cache' = cache
                /\ file' = file]_vars

\* a set_flag through a non-owner's manager has just been refused on a
\* READ_ONLY flag that holds a value
C1_Witness ==
  /\ th[App].pc = "done"
  /\ th[App].op = "set"
  /\ th[App].out = "PermissionError"
  /\ Declared(th[App].m, th[App].f)
  /\ OwnedByOther(th[App].m, th[App].f, READ_ONLY)
  /\ DictGet(cache, th[App].f) # None
  /\ th[App].v # DictGet(cache, th[App].f)

C3_DeclareConflictChangesNothing ==
  [][\A t \in Threads :
       Begins(t, "declare") =>
         \A m \in Managers, f \in FlagNames, p \in PermissionLevel,
            v \in Defaults, d \in Descriptions :
           (/\ \E level \in PermissionLevel : OwnedByOther(m, f, level)
            /\ declare_flag(t, m, f, p, v, d)) =>
             /\ th'[t].pc = "done"
             /\ th'[t].out = "PermissionError"
             /\ UNCHANGED <<ownership, cache, descriptions, file, mgr>>]_vars

\* a declare_flag has just been refused on a flag that another module owns
\* with a level that lets others in
C3_Witness ==
  /\ th[App].pc = "done"
  /\ th[App].op = "declare"
  /\ th[App].out = "PermissionError"
  /\ OwnedByOther(th[App].m, th[App].f, READ_WRITE)

\* the registry names the manager's own module as owner of f
OwnedBySelf(m, f) ==
  /\ f \in DOMAIN ownership
  /\ ownership[f].owner_module = mgr[m].module_name

\* C4: the module the registry names as owner of a flag can get and set the
\* flag through the manager on which it declared the flag, whatever level it
\* advertised: get_flag returns and set_flag is not refused.
C4_OwnerFullAccess ==
  [][\A t \in Threads :
       /\ Begins(t, "get") =>
            \A m \in Managers, f \in FlagNames, d \in GetDefaults :
              (/\ f \in mgr[m].declared_here
               /\ OwnedBySelf(m, f)
               /\ get_flag(t, m, f, d)) => th'[t].out = "ok"
       /\ Begins(t, "set") =>
            \A m \in Managers, f \in FlagNames, v \in Values :
              (/\ f \in mgr[m].declared_here
               /\ OwnedBySelf(m, f)
               /\ set_flag(t, m, f, v)) => th'[t].out # "PermissionError"]_vars

\* C5: get_flag, set_flag and add_observer on a flag the manager has neither
\* declared nor used raise PermissionError and leave the store's values, the
\* file and the observer lists as they were.
C5_UndeclaredRefused ==
  [][\A t \in Threads :
       /\ Begins(t, "get") =>
            \A m \in Managers, f \in FlagNames, d \in GetDefaults :
              (~Declared(m, f) /\ get_flag(t, m, f, d)) =>
                /\ th'[t].out = "PermissionError"
                /\ UNCHANGED <<cache, file, observers, mgr>>
       /\ Begins(t, "set") =>
            \A m \in Managers, f \in FlagNames, v \in Values :
              (~Declared(m, f) /\ set_flag(t, m, f, v)) =>
                /\ th'[t].pc = "done"
                /\ th'[t].out = "PermissionError"
                /\ UNCHANGED <<cache, file, observers, mgr>>
       /\ Begins(t, "add_observer") =>
            \A m \in Managers, f \in FlagNames, c \in Callbacks :
              (~Declared(m, f) /\ add_observer(t, m, f, c)) =>
                /\ th'[t].out = "PermissionError"
                /\ UNCHANGED <<cache, file, observers, mgr>>]_vars

\* set_flag has just been refused for want of a local declaration, on a flag
\* that has a value and is READ_WRITE for the caller's module
C5_Witness ==
  /\ th[App].pc = "done"
  /\ th[App].op = "set"
  /\ th[App].out = "PermissionError"
  /\ ~Declared(th[App].m, th[App].f)
  /\ OwnedByOther(th[App].m, th[App].f, READ_WRITE)
  /\ DictGet(cache, th[App].f) # None

\* the value the file holds for a flag
FileValue(f) ==
  IF file.kind = "doc" THEN DictGet(LoadCache(file), f) ELSE None

\* C6: a declare_flag for a flag the same manager has declared before does
\* not raise, and none of its steps replaces a value held by the store or by
\* the file with the default_value of this call.
C6_RedeclareKeepsValue ==
  [][\A t \in Threads :
       /\ Begins(t, "declare") =>
            \A m \in Managers, f \in FlagNames, p \in PermissionLevel,
               v \in Values, d \in Descriptions :
              (f \in mgr[m].declared_here /\ declare_flag(t, m, f, p, v, d))
                => th'[t].out # "PermissionError"
       /\ (/\ th[t].op = "declare"
           /\ th[t].pc \notin {"idle", "done", "off"}
           /\ th'[t] # th[t]
           /\ th[t].f \in mgr[th[t].m].declared_here) =>
            /\ DictGet(cache, th[t].f) \notin {None, th[t].v}
                 => DictGet(cache', th[t].f) # th[t].v
            /\ FileValue(th[t].f) \notin {None, th[t].v}
                 => FileValue(th[t].f)' # th[t].v]_vars

\* the thread's last call was a set_flag that returned without an error
SetReturned(t) ==
  /\ th[t].pc = "done"
  /\ th[t].op = "set"
  /\ th[t].out = "ok"

\* C7: after set_flag(f, v) has returned, the next get_flag(f) of the same
\* thread, through any manager holding a declaration of f, returns v, also
\* while the watchdog thread handles the events of earlier writes.
C7_ReadYourWrite ==
  [][\A t \in Threads :
       (SetReturned(t) /\ Begins(t, "get")) =>
         \A m \in Managers, d \in GetDefaults :
           (Declared(m, th[t].f) /\ get_flag(t, m, th[t].f, d))
             => th'[t].val = th[t].v]_vars

\* C8: when set_flag(f, v) has returned, the file is a complete document
\* whose entry for f holds v.
C8_SetIsPersisted ==
  \A t \in Threads :
    SetReturned(t) => file.kind = "doc" /\ FileValue(th[t].f) = th[t].v

\* C9: a set_flag that changes the value from v1 to v2 causes exactly one
\* invocation (f, v1, v2) of each observer of f, the notifications of the
\* watchdog thread's reloads included, and a set_flag to the current value
\* causes none.
C9_NotifiedOnce ==
  \A t \in Threads :
    SetReturned(t) =>
      calls = IF th[t].old # th[t].v
                THEN notify_observer(observers, th[t].f, th[t].old, th[t].v)
                ELSE <<>>

\* C10: a manager constructed after set_flag(f, v) returned, with no
\* set_flag since, gets v from get_flag once it has used the flag.
C10_RoundTrip ==
  \A t \in Threads :
    (/\ th[t].pc = "done"
     /\ th[t].op = "get"
     /\ th[t].out = "ok"
     /\ DictGet(mgr[th[t].m].seen, th[t].f) # None
     /\ DictGet(written, th[t].f) = DictGet(mgr[th[t].m].seen, th[t].f))
      => th[t].val = DictGet(written, th[t].f)

\* C11: a reload that ends in the except clause, because the file is not
\* valid JSON or its content cannot be walked, raises nothing (the watchdog
\* thread goes on) and leaves the cache, the descriptions and the ownership
\* registry as they were, so get_flag keeps answering from the last good load.
C11_FailedReloadKeepsState ==
  [][(wpc = "reload" /\ reload_raised(file) /\ watcher_reload) =>
       /\ wpc' = "idle"
       /\ UNCHANGED <<cache, descriptions, ownership>>]_vars

\* every worker thread has made all its cycles
WorkersDone == \A t \in Threads : th[t].pc = "idle" /\ iter[t] = Iterations

\* C12: the worker threads, each making Iterations cycles of get then
\* set(current + 1) on one counter that starts at 0, never get an error,
\* whatever the interleaving with each other and with the watchdog thread,
\* and once all are done the counter reads at least 1 and at most
\* (number of threads) * Iterations.
C12_CounterInRange ==
  /\ \A t \in Threads : th[t].pc # "failed" /\ th[t].out \in {"-", "ok"}
  /\ WorkersDone =>
       LET final_value == get_flag_result(CounterManager, CounterFlag, 0) IN
       final_value >= 1 /\ final_value <= Cardinality(Threads) * Iterations

\* C13: get_flag(f, default) on a declared or used flag returns the store's
\* value when the store has one; otherwise the default_value of the manager's
\* own declaration when that is not None; and the caller's default only when
\* there is neither.
C13_GetPrecedence ==
  [][\A t \in Threads :
       Begins(t, "get") =>
         \A m \in Managers, f \in FlagNames, d \in GetDefaults :
           (Declared(m, f) /\ get_flag(t, m, f, d)) =>
             th'[t].val =
               IF DictGet(cache, f) # None THEN DictGet(cache, f)
               ELSE IF mgr[m].declared_flags[f].default_value # None
                 THEN mgr[m].declared_flags[f].default_value
               ELSE d]_vars

\* C14: there is never a second SharedFlagStorage instance for the path: the
\* registry's entry is the first instance created, and every manager, from
\* whichever thread it is constructed, holds that instance.
C14_OneStoragePerPath ==
  /\ stored <= 1
  /\ \A m \in Managers : mgr[m].state # "unborn" => mgr[m].storage = 1

\* two threads are inside FeatureFlagManager.__init__ at the same time, each
\* past get_shared_storage, for different managers
C14_Witness ==
  /\ th["t1"].pc = "add_manager"
  /\ th["t2"].pc = "add_manager"
  /\ th["t1"].m # th["t2"].m
  /\ mgr[th["t1"].m].storage # 0
  /\ mgr[th["t2"].m].storage # 0

\* C15: the shutdown that brings the store's use-count to zero stops the
\* file watcher and removes the store from the path-to-store registry.
C15_LastShutdownReleasesStore ==
  [][\A t \in Threads :
       Begins(t, "shutdown") =>
         \A m \in Managers :
           (shutdown(t, m) /\ manager_count' = 0) =>
             /\ ~observer_alive'
             /\ stored' = 0]_vars

\* the document the thread's write_config call was given
NewDocument(t) == write_config(th[t].snapC, th[t].snapD, th[t].snapO)

\* C16: at every point of a write_config the config file, as any reader
\* inside or outside the process finds it, is a complete document: the one
\* from before the write until the rename, the new one from the rename on.
C16_NeverHalfWritten ==
  /\ [](file.kind = "doc")
  /\ [][file' # file =>
          \E t \in Threads : /\ th[t].pc = "write_replace"
                              /\ temp = NewDocument(t)
                              /\ file' = NewDocument(t)]_vars

\* a write is under way: the temp file is half written while the config file
\* still holds the complete previous document, which differs from the new one
C16_Witness ==
  /\ th[App].pc = "write_dump"
  /\ temp = PartialFile
  /\ file.kind = "doc"
  /\ file # NewDocument(App)

\* the positions inside write_config
WritePcs == {"write_config", "write_dump", "write_replace"}

\* C17: when a step of the atomic write fails, the set_flag or declare_flag
\* call ends with an error for its caller, no temp file is left, and the
\* config file is as it was; the file changes only in the step that ends the
\* call without an error.
C17_FailedWriteCleansUp ==
  [][\A t \in Threads :
       (th[t].pc \in WritePcs /\ th'[t] # th[t]) =>
         /\ (th'[t].pc = "done" /\ th'[t].out = "ok") \/ file' = file
         /\ (th'[t].pc = "done" /\ th'[t].out # "ok") =>
              /\ th'[t].out = "RuntimeError"
              /\ th'[t].op \in {"set", "declare"}
              /\ temp' = AbsentFile
              /\ lock' = "-"]_vars

\* a set_flag has just raised because the rename failed: the temp file is
\* gone and the config file still holds the previous value
C17_Witness ==
  /\ th[App].pc = "done"
  /\ th[App].op = "set"
  /\ th[App].out = "RuntimeError"
  /\ th[App].desc = "replace"
  /\ temp = AbsentFile
  /\ FileValue(th[App].f) \notin {None, th[App].v}

\* C18: when the declare_flag made for a module's flag during
\* register_module raises PermissionError, because another module owns the
\* flag, register_module ends with that PermissionError.
C18_RegistrationFails ==
  [][\A t \in Threads :
       Begins(t, "register") =>
         \A m \in Managers, f \in FlagNames, p \in PermissionLevel,
            v \in Defaults, d \in Descriptions :
           (declare_conflict(m, f) /\ register_module(t, m, f, p, v, d)) =>
             th'[t].out = "PermissionError"]_vars

\* thread t's declare_flag call has returned without an error
DeclareReturned(t) ==
  /\ th[t].pc = "done"
  /\ th[t].op = "declare"
  /\ th[t].out = "ok"

\* C19: of two declare_flag calls for one flag made by the managers of two
\* different modules from two threads, at most one returns without an error.
C19_OneDeclareWins ==
  \A t1 \in Threads, t2 \in Threads :
    (/\ t1 # t2
     /\ DeclareReturned(t1)
     /\ DeclareReturned(t2)
     /\ th[t1].f = th[t2].f)
      => mgr[th[t1].m].module_name = mgr[th[t2].m].module_name

\* C20: no step takes a flag's record out of the ownership registry or puts
\* another module's name into it.
C20_OwnershipNeverChanges ==
  [][\A f \in FlagNames :
       f \in DOMAIN ownership =>
         /\ f \in DOMAIN ownership'
         /\ ownership'[f].owner_module = ownership[f].owner_module]_vars

\* the registry denies writing to module m's manager: another module owns f
\* and lets others read at most
WriteDenied(m, f) ==
  OwnedByOther(m, f, READ_ONLY) \/ OwnedByOther(m, f, OWNER_ONLY)

\* C21: the step of set_flag that puts the value into the store is never
\* taken by a non-owner's manager while the ownership record of the flag is
\* READ_ONLY or OWNER_ONLY, also when the owner re-declares the flag with a
\* stricter level after the use_flag or while the set_flag is running.
C21_NoWriteWhileDenied ==
  [][\A t \in Threads :
       (th[t].pc = "set_flag_value" /\ set_flag_value(t))
         => ~WriteDenied(th[t].m, th[t].f)]_vars

\* C22: get_flag by a non-owner's manager returns no value while the
\* ownership record of the flag is OWNER_ONLY, also when the manager holds a
\* declaration from a use_flag made before the owner re-declared the flag.
C22_NoReadWhileOwnerOnly ==
  [][\A t \in Threads :
       Begins(t, "get") =>
         \A m \in Managers, f \in FlagNames, d \in GetDefaults :
           (OwnedByOther(m, f, OWNER_ONLY) /\ get_flag(t, m, f, d)) =>
             /\ th'[t].out = "PermissionError"
             /\ th'[t].val = None]_vars

\* every call has returned and the watchdog thread has nothing left to do
Quiet ==
  /\ \A t \in Threads : th[t].pc \in {"idle", "done", "off"}
  /\ events = 0
  /\ wpc = "idle"

\* C23: when all the set_flag calls made from several threads have returned
\* and the watchdog thread has handled every file event, the flag values in
\* the config file are the values in the cache.
C23_FileEqualsCacheWhenQuiet ==
  Quiet => file.kind = "doc" /\ LoadCache(file) = cache

\* thread t's set_flag has put its value into the store
SetApplied(t) ==
  /\ th[t].op = "set"
  /\ \/ th[t].pc \in {"get_cache", "get_descriptions", "get_ownership_registry",
                       "write_config"}
     \/ SetReturned(t)

\* C24: a reload made by the watchdog thread never takes out of the cache the
\* value that a set_flag has put there: it does not revert the flag to a
\* value from before that set_flag.
C24_ReloadNeverReverts ==
  [][(wpc = "reload" /\ watcher_reload) =>
       \A t \in Threads :
         (SetApplied(t) /\ DictGet(cache, th[t].f) = th[t].v)
           => DictGet(cache', th[t].f) = th[t].v]_vars

\* C25: once declare_flag(f) has returned, f has a value in the cache and a
\* record in the ownership registry, in every later state.
C25_DeclaredFlagsStay ==
  \A m \in Managers :
    \A f \in mgr[m].declared_here :
      f \in DOMAIN cache /\ f \in DOMAIN ownership

\* C26: a shutdown() that has started returns in the end, also the one of the
\* last manager made while the watchdog thread is in a reload and waits for
\* the lock of the store.
C26_ShutdownReturns ==
  \A t \in Threads : (th[t].op = "shutdown") ~> (th[t].pc = "done")

\* lines 140-183 are run in this step, by the watchdog thread or by a thread
\* that called reload()
ReloadPerformed ==
  \/ wpc = "reload" /\ watcher_reload
  \/ \E t \in Threads : th[t].pc = "reload_config" /\ reload_config(t)

\* C27: no two reloads are performed less than debounce_seconds apart,
\* whichever threads ask for them: when a reload is performed, the reload
\* before it is at least debounce_seconds old.
C27_ReloadsDebounced ==
  [][ReloadPerformed => since_reload >= debounce_seconds]_vars

\* the documents with flags that the outside writer can leave in the file
ExternalDocs == {fl \in ExternalFiles : fl.kind = "doc"}

\* C28: when the file has been changed from outside and is not written any
\* more, the cache ends up holding the flag values of the file, as long as
\* the watchdog thread keeps handling its events.
C28_CacheFollowsFile ==
  \A fl \in ExternalDocs :
    <>[](file = fl) => <>[](cache = LoadCache(fl))

\* C29: a reload calls, for every flag whose cached value is not the same
\* after it as before it (a flag that appears or disappears too), each
\* observer registered on the flag exactly once, with the flag's name, its
\* old and its new value, and calls no observer of a flag whose value is the
\* same.
C29_ReloadNotifiesChanges ==
  [][ReloadPerformed =>
       LET made == SubSeq(calls', Len(calls) + 1, Len(calls')) IN
       \A f \in FlagNames :
         LET o == DictGet(cache, f)
             v == DictGet(cache', f)
             cbs == IF f \in DOMAIN observers THEN observers[f] ELSE <<>>
             got == {i \in 1 .. Len(made) : made[i].flag = f}
         IN IF o # v
              THEN /\ \A i \in got : made[i].old = o /\ made[i].new = v
                   /\ \A c \in Callbacks :
                        Cardinality({i \in got : made[i].cb = c})
                          = Cardinality({j \in 1 .. Len(cbs) : cbs[j] = c})
              ELSE got = {}]_vars

\* C30: a reload performed when the file is absent, or holds a document
\* without a "flags" entry, leaves the cache, the descriptions and the
\* ownership registry empty.
C30_ReloadResetsWithoutFlags ==
  [][(ReloadPerformed /\ file.kind \in {"absent", "noflags"}) =>
       /\ cache' = EmptyDict
       /\ descriptions' = EmptyDict
       /\ ownership' = EmptyDict]_vars

\* the observer invocations made in this step
Made == SubSeq(calls', Len(calls) + 1, Len(calls'))

\* C31: the notifications that one observer gets for a flag come in the order
\* of the changes: the first one made in a step has the cached value as its
\* old value, and each later one has as old value the new value of the one
\* before it, also when a callback sets the flag during the delivery.
C31_NotificationsInCommitOrder ==
  [][\A f \in FlagNames, c \in ObserveCallbacks :
       LET got == {i \in 1 .. Len(Made) : Made[i].flag = f /\ Made[i].cb = c}
           once == /\ f \in DOMAIN observers
                   /\ Cardinality({j \in 1 .. Len(observers[f]) :
                                     observers[f][j] = c}) = 1
       IN once =>
            \A i \in got :
              LET before == {k \in got : k < i} IN
              IF before = {}
                THEN Made[i].old = DictGet(cache, f)
                ELSE Made[i].old =
                       Made[CHOOSE k \in before : \A x \in before : x <= k].new]_vars

\* C32: an observer callback that raises does not make set_flag fail, does
\* not keep the other observers of that change from being called, and does
\* not keep the new value from being stored and then persisted: set_flag
\* goes on to _persist_config.
C32_RaisingObserverContained ==
  [][(\E i \in 1 .. Len(Made) : Made[i].cb = raising_callback) =>
       /\ \A t \in Threads :
            (th[t].pc = "set_flag_value" /\ set_flag_value(t)) =>
              /\ th'[t].pc = "get_cache"
              /\ \/ DictGet(cache', th[t].f) = th[t].v
                 \/ /\ DictGet(cache', th[t].f) = Ack
                    /\ \E i \in 1 .. Len(Made) : Made[i].cb = on_message_received
       /\ \A f \in DOMAIN observers, c \in ObserveCallbacks :
            (\E i \in 1 .. Len(Made) : Made[i].flag = f) =>
              Cardinality({i \in 1 .. Len(Made) :
                             /\ Made[i].flag = f
                             /\ Made[i].cb = c
                             /\ Made[i].old = DictGet(cache, f)})
                = Cardinality({j \in 1 .. Len(observers[f]) : observers[f][j] = c})]_vars

\* a set_flag has returned normally and its value is in the cache and in the
\* file, after a raising callback and then another observer were called
C32_Witness ==
  \E t \in Threads :
    /\ SetReturned(t)
    /\ DictGet(cache, th[t].f) = th[t].v
    /\ file.kind = "doc"
    /\ FileValue(th[t].f) = th[t].v
    /\ \E i, j \in 1 .. Len(calls) :
         /\ i < j
         /\ calls[i].cb = raising_callback
         /\ calls[j].cb = "cb1"
         /\ calls[i].new = th[t].v
         /\ calls[j].new = th[t].v

\* callback c is in the store's observer list of flag f
Registered(f, c) ==
  /\ f \in DOMAIN observers
  /\ \E j \in 1 .. Len(observers[f]) : observers[f][j] = c

\* manager m's shutdown() has returned
ShutDown(m) ==
  /\ mgr[m].state = "live"
  /\ ~mgr[m].attached
  /\ \A t \in Threads : ~(th[t].pc = "join" /\ th[t].m = m)

\* C33: once shutdown() of a manager has returned, a callback that the
\* manager registered with add_observer, and that no manager still in use
\* registered too, is in none of the store's observer lists.
C33_ShutdownDetachesObservers ==
  \A m \in Managers :
    ShutDown(m) =>
      \A f \in DOMAIN mgr[m].my_observers :
        (\A k \in Managers \ {m} :
            ~(/\ f \in DOMAIN mgr[k].my_observers
              /\ mgr[k].my_observers[f] = mgr[m].my_observers[f]))
          => ~Registered(f, mgr[m].my_observers[f])

\* C34: when manager m's remove_observer(f) has acted, none of the callbacks
\* m had registered on f, also by several add_observer calls, is left in the
\* observer list of f (unless another manager registered that very callback),
\* and every callback another manager registered on f still is.
C34_RemoveObserverRemovesAll ==
  [][\A t \in Threads, m \in Managers, f \in FlagNames :
       (/\ f \in DOMAIN mgr[m].my_observers
        /\ remove_observer(t, m, f)) =>
         LET others == UNION {mgr[k].observing[f] :
                                k \in {x \in Managers \ {m} :
                                         f \in DOMAIN mgr[x].observing}}
         IN /\ \A c \in mgr[m].observing[f] \ others :
                 ~(/\ f \in DOMAIN observers'
                   /\ \E j \in 1 .. Len(observers'[f]) : observers'[f][j] = c)
            /\ \A c \in others :
                 /\ f \in DOMAIN observers'
                 /\ \E j \in 1 .. Len(observers'[f]) : observers'[f][j] = c]_vars

\* C35: when set_flag has raised because the config file could not be
\* written, the cached value of the flag is the one from before the call and
\* no observer has been called.
C35_FailedSetChangesNothing ==
  \A t \in Threads :
    (/\ th[t].pc = "done"
     /\ th[t].op = "set"
     /\ th[t].out = "RuntimeError") =>
      /\ DictGet(cache, th[t].f) = th[t].old
      /\ calls = <<>>

\* C36: constructing managers on the path of a store that holds flags, with
\* the config file removed in the meantime or not, changes no flag value, no
\* description and no ownership record of the store, neither in the
\* constructor nor when the watchdog thread handles the file events.
C36_ConstructionKeepsStore ==
  [][/\ cache' = cache
     /\ descriptions' = descriptions
     /\ ownership' = ownership]_vars

\* C40: whenever no call is in progress, the store's manager count is the
\* number of managers constructed on it and not shut down, it is not
\* negative, and the watchdog thread runs exactly when it is above zero.
C40_ManagerCountIsAttached ==
  (\A t \in Threads : th[t].pc \in {"idle", "done", "off"}) =>
    /\ manager_count =
         Cardinality({m \in Managers : mgr[m].state = "live" /\ mgr[m].attached})
    /\ manager_count >= 0
    /\ observer_alive <=> manager_count > 0

\* C37: all get_manager calls that have returned for one key returned the
\* same manager, and no more than one manager has been constructed for a key.
C37_OneManagerPerKey ==
  /\ \A t, u \in Threads :
       (/\ th[t].pc = "done" /\ th[t].op = "get_manager"
        /\ th[u].pc = "done" /\ th[u].op = "get_manager"
        /\ th[t].desc = th[u].desc) => th[t].m = th[u].m
  /\ \A mod \in Modules :
       Cardinality({m \in Managers : /\ mgr[m].state # "unborn"
                                     /\ mgr[m].module_name = mod}) <= 1

\* C38: every module in the running set has all of its declared dependencies
\* in the running set.
C38_RunningHaveDependencies ==
  \A n \in running_modules :
    \A i \in 1..Len(dependencies[n]) : dependencies[n][i] \in running_modules

\* C39: whenever no start_module or stop_module call is in progress, a module
\* is in the running set exactly when its status is ACTIVE.
C39_RunningIffActive ==
  (\A c \in Coroutines : tasks[c] = <<>>) =>
    \A n \in ModuleNames : n \in running_modules <=> status[n] = ACTIVE

====
